---- MODULE Spec2Model ----
(***************************************************************************)
(* Model of the notebook hu1.ipynb (Holmgren825/atmobiochem): the Python   *)
(* kernel's namespace, the output area of each code cell, and the notebook *)
(* cells as operations on them.                                            *)
(*                                                                         *)
(* Python floats are IEEE 754 binary64 numbers.  They are modelled bit for *)
(* bit: a float is a sign, a 53 bit significand and a binary exponent, and *)
(* every arithmetic operation rounds its exact result to nearest, ties to  *)
(* even.  TLC's integers are 32 bits wide, so significands and the exact   *)
(* intermediate results are natural numbers held as sequences of 15 bit    *)
(* limbs, least significant limb first.                                    *)
(***************************************************************************)
EXTENDS Integers, Sequences, FiniteSets, TLC

(***************************************************************************)
(* Natural numbers of arbitrary size                                       *)
(***************************************************************************)
Base == 2^15

Max(a, b) == IF a >= b THEN a ELSE b
Min(a, b) == IF a <= b THEN a ELSE b

RECURSIVE BTrim(_)
BTrim(a) ==
  IF a = <<>> THEN a
  ELSE IF a[Len(a)] = 0 THEN BTrim(SubSeq(a, 1, Len(a) - 1)) ELSE a

RECURSIVE BFromInt(_)
BFromInt(n) == IF n = 0 THEN <<>> ELSE <<n % Base>> \o BFromInt(n \div Base)

Limb(a, i) == IF i <= Len(a) THEN a[i] ELSE 0

RECURSIVE BAddRec(_, _, _, _)
BAddRec(a, b, i, c) ==
  IF i > Len(a) /\ i > Len(b)
  THEN (IF c = 0 THEN <<>> ELSE <<c>>)
  ELSE LET s == Limb(a, i) + Limb(b, i) + c
       IN  <<s % Base>> \o BAddRec(a, b, i + 1, s \div Base)

BAdd(a, b) == BAddRec(a, b, 1, 0)

\* a - b for a >= b
RECURSIVE BSubRec(_, _, _, _)
BSubRec(a, b, i, c) ==
  IF i > Len(a) THEN <<>>
  ELSE LET d == a[i] - Limb(b, i) - c
       IN  IF d < 0 THEN <<d + Base>> \o BSubRec(a, b, i + 1, 1)
           ELSE <<d>> \o BSubRec(a, b, i + 1, 0)

BSub(a, b) == BTrim(BSubRec(a, b, 1, 0))

\* -1, 0 or 1 as a < b, a = b or a > b
RECURSIVE BCmpRec(_, _, _)
BCmpRec(a, b, i) ==
  IF i = 0 THEN 0
  ELSE IF a[i] < b[i] THEN -1
  ELSE IF a[i] > b[i] THEN 1
  ELSE BCmpRec(a, b, i - 1)

BCmp(a, b) ==
  IF Len(a) < Len(b) THEN -1
  ELSE IF Len(a) > Len(b) THEN 1
  ELSE BCmpRec(a, b, Len(a))

\* a * k for 0 <= k < Base
RECURSIVE BMulSmallRec(_, _, _, _)
BMulSmallRec(a, k, i, c) ==
  IF i > Len(a) THEN (IF c = 0 THEN <<>> ELSE <<c>>)
  ELSE LET p == a[i] * k + c
       IN  <<p % Base>> \o BMulSmallRec(a, k, i + 1, p \div Base)

BMulSmall(a, k) == IF k = 0 THEN <<>> ELSE BMulSmallRec(a, k, 1, 0)

BShlLimbs(a, q) == IF a = <<>> THEN a ELSE [i \in 1..q |-> 0] \o a

\* acc is a times the limbs of b below limb j
RECURSIVE BMulRec(_, _, _, _)
BMulRec(a, b, j, acc) ==
  IF j > Len(b) \/ Len(acc) < 0 THEN acc
  ELSE BMulRec(a, b, j + 1, BAdd(acc, BShlLimbs(BMulSmall(a, b[j]), j - 1)))

BMul(a, b) == IF a = <<>> \/ b = <<>> THEN <<>> ELSE BMulRec(a, b, 1, <<>>)

\* <<floor(a / k), a mod k>> for 0 < k <= Base, from limb i down; st is
\* <<the quotient limbs found so far, the running remainder>>
RECURSIVE BDivSmallRec(_, _, _, _)
BDivSmallRec(a, k, i, st) ==
  IF i = 0 \/ st[2] < 0 THEN st
  ELSE LET cur == st[2] * Base + a[i]
       IN  BDivSmallRec(a, k, i - 1, <<<<cur \div k>> \o st[1], cur % k>>)

BDivSmall(a, k) == BTrim(BDivSmallRec(a, k, Len(a), <<<<>>, 0>>)[1])

\* a * 2^n and floor(a / 2^n)
BShl(a, n) == BShlLimbs(BMulSmall(a, 2^(n % 15)), n \div 15)

BShr(a, n) ==
  IF n \div 15 >= Len(a) THEN <<>>
  ELSE BDivSmall(SubSeq(a, (n \div 15) + 1, Len(a)), 2^(n % 15))

RECURSIVE ILen(_)
ILen(x) == IF x = 0 THEN 0 ELSE 1 + ILen(x \div 2)

\* number of bits of a
BBitLen(a) == IF a = <<>> THEN 0 ELSE 15 * (Len(a) - 1) + ILen(a[Len(a)])

BBit(a, i) == (Limb(a, (i \div 15) + 1) \div 2^(i % 15)) % 2

BOdd(a) == a # <<>> /\ a[1] % 2 = 1

\* The next quotient limb of cur / d, for cur < d * Base and d with its top bit
\* set: the quotient of the leading limbs is at most 2 too large (Knuth 4.3.1).
RECURSIVE QFix(_, _, _)
QFix(cur, d, q) ==
  IF BCmp(BMulSmall(d, q), cur) <= 0 THEN q ELSE QFix(cur, d, q - 1)

QDigit(cur, d) ==
  LET top == Limb(cur, Len(d) + 1) * Base + Limb(cur, Len(d))
  IN  QFix(cur, d, Min(Base - 1, top \div d[Len(d)]))

\* <<floor(n / d), n mod d>> for d > 0: long division, from limb i down; st
\* is <<the quotient limbs found so far, the running remainder>>
RECURSIVE BDivModRec(_, _, _, _)
BDivModRec(n, d, i, st) ==
  IF i = 0 \/ Len(st[2]) < 0 THEN st
  ELSE LET Step(cur, dig) == <<<<dig>> \o st[1], BSub(cur, BMulSmall(d, dig))>>
           Digit(cur) == Step(cur, QDigit(cur, d))
       IN  BDivModRec(n, d, i - 1, Digit(BTrim(<<n[i]>> \o st[2])))

BDivMod(n, d) ==
  IF d = <<1>> THEN <<n, <<>>>>
  ELSE LET Unshift(qr, s) == <<BTrim(qr[1]), BShr(qr[2], s)>>
           Divide(ns, ds, s) ==
             Unshift(BDivModRec(ns, ds, Len(ns), <<<<>>, <<>>>>), s)
           Normalise(s) == Divide(BShl(n, s), BShl(d, s), s)
       IN  Normalise(15 - ILen(d[Len(d)]))

\* 10^k, by squaring 10^(k \div 2)
RECURSIVE BPow10(_)
BPow10(k) ==
  LET Square(h) == IF k % 2 = 0 THEN BMul(h, h) ELSE BMulSmall(BMul(h, h), 10)
  IN  IF k = 0 THEN <<1>> ELSE Square(BPow10(k \div 2))

\* the integer nearest to n / d, ties to even
BRoundDiv(n, d) ==
  LET Nearest(q, c) == IF c > 0 \/ (c = 0 /\ BOdd(q)) THEN BAdd(q, <<1>>) ELSE q
      Half(qr) == Nearest(qr[1], BCmp(BMulSmall(qr[2], 2), d))
  IN  Half(BDivMod(n, d))

(***************************************************************************)
(* binary64 floats.  A value of the namespace is a record                  *)
(*   [tag, s, m, e]: tag "num" is the number (-1)^s * m * 2^e, with m = 0  *)
(*   (the empty limb sequence) or 2^52 <= m < 2^53; any other tag carries  *)
(*   no number: "unset" (a name not bound), "obj" (a function or module    *)
(*   object) or the name of the exception an evaluation raised.            *)
(* Exponents are not bounded: there is no overflow to inf and there are no *)
(* subnormals.  Every value computed here is far inside the normal range.  *)
(***************************************************************************)
Num(s, m, e) == [tag |-> "num", s |-> s, m |-> m, e |-> e]
Other(t) == [tag |-> t, s |-> 0, m |-> <<>>, e |-> 0]
Unset == Other("unset")
Obj == Other("obj")
Raise(x) == Other(x)
IsNum(a) == a.tag = "num"
IsExc(a) == a.tag \notin {"num", "unset", "obj"}
Zero(s) == Num(s, <<>>, 0)
IsZero(a) == a.m = <<>>
Xor(s, t) == (s + t) % 2

\* (-1)^s * (n / d) * 2^x rounded to the nearest binary64, ties to even
Round(s, n, d, x) ==
  IF n = <<>> THEN Zero(s)
  ELSE LET \* the significand m1 may have grown to 54 bits
           Carry(m1, e) ==
             IF BBitLen(m1) = 54 THEN Num(s, BShr(m1, 1), e + 1) ELSE Num(s, m1, e)
           \* c compares the bits dropped with half a unit of m0; r is the
           \* remainder of the division
           Up(m0, c, r, e) ==
             Carry(IF c > 0 \/ (c = 0 /\ (r # <<>> \/ BOdd(m0)))
                   THEN BAdd(m0, <<1>>) ELSE m0, e)
           Low(qr, drop, m0, e) ==
             Up(m0, BCmp(BSub(qr[1], BShl(m0, drop)), BShl(<<1>>, drop - 1)),
                qr[2], e)
           Drop(qr, drop, e) == Low(qr, drop, BShr(qr[1], drop), e + drop)
           \* qr = <<q, r>>: the quotient q has at least 55 bits
           Quot(qr, e) == Drop(qr, BBitLen(qr[1]) - 53, e)
           Shift(sh) == Quot(BDivMod(BShl(n, sh), d), x - sh)
       IN  Shift(Max(0, 55 + BBitLen(d) - BBitLen(n)))

\* A decimal literal mant * 10^e10 (Python reads it correctly rounded), and an
\* int literal, which converts to float exactly when it enters an operation.
Dec(mant, e10) ==
  IF e10 >= 0 THEN Round(0, BMul(BFromInt(mant), BPow10(e10)), <<1>>, 0)
  ELSE Round(0, BFromInt(mant), BPow10(-e10), 0)

PyInt(n) == IF n < 0 THEN Round(1, BFromInt(-n), <<1>>, 0) ELSE Round(0, BFromInt(n), <<1>>, 0)

\* The operands of a binary operation are evaluated left to right: the first
\* exception raised is the one that propagates.
FMul(a, b) ==
  IF ~IsNum(a) THEN a ELSE IF ~IsNum(b) THEN b
  ELSE Round(Xor(a.s, b.s), BMul(a.m, b.m), <<1>>, a.e + b.e)

\* Fault: a division that does not check its divisor and yields 0.0 for x / 0
FDivUnchecked(a, b) ==
  IF ~IsNum(a) THEN a ELSE IF ~IsNum(b) THEN b
  ELSE IF IsZero(b) THEN Zero(Xor(a.s, b.s))
  ELSE Round(Xor(a.s, b.s), a.m, b.m, a.e - b.e)

\* a / b: Python raises ZeroDivisionError on a zero divisor (float or int)
FDiv(a, b) ==
  IF ~IsNum(a) THEN a ELSE IF ~IsNum(b) THEN b
  ELSE IF IsZero(b) THEN Raise("ZeroDivisionError")
  ELSE Round(Xor(a.s, b.s), a.m, b.m, a.e - b.e)

FAdd(a, b) ==
  IF ~IsNum(a) THEN a ELSE IF ~IsNum(b) THEN b
  ELSE IF IsZero(a) /\ IsZero(b) THEN Zero(IF a.s = 1 /\ b.s = 1 THEN 1 ELSE 0)
  ELSE IF IsZero(a) THEN b ELSE IF IsZero(b) THEN a
  ELSE LET \* am * 2^x and bm * 2^x are |a| and |b|; c compares them
           Sum(am, bm, c, x) ==
             IF a.s = b.s THEN Round(a.s, BAdd(am, bm), <<1>>, x)
             ELSE IF c = 0 THEN Zero(0)
             ELSE IF c > 0 THEN Round(a.s, BSub(am, bm), <<1>>, x)
             ELSE Round(b.s, BSub(bm, am), <<1>>, x)
           Compare(am, bm, x) == Sum(am, bm, BCmp(am, bm), x)
           Align(x) == Compare(BShl(a.m, a.e - x), BShl(b.m, b.e - x), x)
       IN  Align(Min(a.e, b.e))

\* x ** -3.0: the C library's pow, taken as correctly rounded; Python raises
\* ZeroDivisionError for 0.0 to a negative power
FPowNeg3(a) ==
  IF ~IsNum(a) THEN a
  ELSE IF IsZero(a) THEN Raise("ZeroDivisionError")
  ELSE Round(a.s, <<1>>, BMul(a.m, BMul(a.m, a.m)), -(3 * a.e))

\* math.exp(x), taken as correctly rounded.  e^|x| is computed in fixed point
\* with ExpFracBits fraction bits: |x| is halved ExpHalvings times, the Taylor
\* series of the small argument is summed until its terms vanish, and the sum
\* is squared ExpHalvings times; e^-|x| is the reciprocal.
ExpFracBits == 80
ExpHalvings == 5

\* The terms lo..hi of the series, until one vanishes.  st is <<term, sum of
\* the earlier terms>>; the term after term n - 1 is term * x / n.  The range
\* is halved rather than walked, which keeps the evaluation shallow.
RECURSIVE ExpSum(_, _, _, _)
ExpSum(x, lo, hi, st) ==
  IF st[1] = <<>> \/ lo > hi THEN st
  ELSE IF lo = hi
  THEN <<BDivSmall(BShr(BMul(st[1], x), ExpFracBits), lo), BAdd(st[2], st[1])>>
  ELSE ExpSum(x, ((lo + hi) \div 2) + 1, hi, ExpSum(x, lo, (lo + hi) \div 2, st))

RECURSIVE ExpSquare(_, _)
ExpSquare(y, k) ==
  IF k = 0 \/ y = <<>> THEN y ELSE ExpSquare(BShr(BMul(y, y), ExpFracBits), k - 1)

FExp(a) ==
  IF ~IsNum(a) THEN a
  ELSE LET \* y is e^|a| in fixed point
           Result(one, y) ==
             IF a.s = 1 THEN Round(0, one, y, 0)
             ELSE Round(0, y, <<1>>, -ExpFracBits)
           \* x is |a| / 2^ExpHalvings in fixed point
           Series(one, x) ==
             Result(one, ExpSquare(ExpSum(x, 1, ExpFracBits, <<one, <<>>>>)[2],
                                   ExpHalvings))
           Fixed(sh) ==
             Series(BShl(<<1>>, ExpFracBits),
                    IF sh >= 0 THEN BShl(a.m, sh) ELSE BShr(a.m, -sh))
       IN  Fixed(a.e + ExpFracBits - ExpHalvings)

(***************************************************************************)
(* Formatted output.  A printed number is [f, neg, d, x]: for '.2e' the    *)
(* three significant digits d (100..999, or 0) and the decimal exponent x, *)
(* for '.2f' the value in hundredths d (x = 0).  Python formats the exact  *)
(* binary value correctly rounded, ties to even.                           *)
(***************************************************************************)
\* |a| as the fraction <<n, d>>
Frac(a) == IF a.e >= 0 THEN <<BShl(a.m, a.e), <<1>>>> ELSE <<a.m, BShl(<<1>>, -a.e)>>

\* n / d >= 10^p
GE10(n, d, p) ==
  IF p >= 0 THEN BCmp(n, BMul(d, BPow10(p))) >= 0
  ELSE BCmp(BMul(n, BPow10(-p)), d) >= 0

\* the p with 10^p <= n / d < 10^(p+1), searched from p upwards or downwards
RECURSIVE Log10Up(_, _, _)
Log10Up(n, d, p) == IF GE10(n, d, p + 1) THEN Log10Up(n, d, p + 1) ELSE p
RECURSIVE Log10Down(_, _, _)
Log10Down(n, d, p) == IF GE10(n, d, p) THEN p ELSE Log10Down(n, d, p - 1)
Log10(n, d) == IF GE10(n, d, 0) THEN Log10Up(n, d, 0) ELSE Log10Down(n, d, -1)

Fmt2e(a) ==
  IF IsZero(a) THEN [f |-> "e", neg |-> a.s, d |-> <<>>, x |-> 0]
  ELSE LET \* rounding to three digits may carry into a fourth
           Digits(d, p) ==
             IF d = BFromInt(1000)
             THEN [f |-> "e", neg |-> a.s, d |-> BFromInt(100), x |-> p + 1]
             ELSE [f |-> "e", neg |-> a.s, d |-> d, x |-> p]
           Mantissa(n, d, p) ==
             Digits(IF p <= 2 THEN BRoundDiv(BMul(n, BPow10(2 - p)), d)
                    ELSE BRoundDiv(n, BMul(d, BPow10(p - 2))), p)
           Exponent(nd) == Mantissa(nd[1], nd[2], Log10(nd[1], nd[2]))
       IN  Exponent(Frac(a))

Fmt2f(a) ==
  LET Hundredths(nd) ==
        [f |-> "f", neg |-> a.s, d |-> BRoundDiv(BMulSmall(nd[1], 100), nd[2]),
         x |-> 0]
  IN  Hundredths(Frac(a))

Fmt(f, a) == IF f = "e" THEN Fmt2e(a) ELSE Fmt2f(a)

(***************************************************************************)
(* The notebook.  Code cells are numbered by their execution count,        *)
(* In[1]..In[10].                                                          *)
(***************************************************************************)
Names ==
  {"math", "p_sfc", "p_10", "R", "NA", "t_sfc", "ho2", "ch3o2", "o3", "oh_c",
   "f", "j_o1d", "k1", "k2", "k1_l", "k2_l", "vol_to_dens", "ho2_c", "ch3o2_c",
   "o3_c", "no_crit", "j_no2", "t_10", "o3_sfc", "o3_10", "n2", "o3_sfc_c",
   "o3_10_c", "n2_sfc_c", "n2_10_c", "k_sfc", "k_10", "kn_sfc", "kn_10",
   "rat_sfc", "rat_10", "tau_no2_sfc", "tau_no2_10", "tau_nox_sfc",
   "tau_nox_10"}

Cells == 1..10

\* Fault: In[6] reassigns oh_c with another value than In[2] gave it
LiteralsOhEdited ==
  [p_sfc |-> PyInt(101325), p_10 |-> PyInt(28000), R |-> Dec(831, -2),
   NA |-> Dec(6022, -3), t_sfc |-> PyInt(298), ho2 |-> PyInt(40),
   ch3o2 |-> PyInt(25), o3 |-> PyInt(40), oh_c |-> Dec(1, 6), f |-> Dec(15, -2),
   j_o1d |-> Dec(25, -1), k1 |-> Dec(85, -1), k1_l |-> Dec(73, -1),
   k2_l |-> PyInt(2), oh_c_2 |-> Dec(2, 6), j_no2 |-> Dec(1, -2),
   t_10 |-> PyInt(220), o3_sfc |-> PyInt(40), o3_10 |-> PyInt(100),
   n2 |-> Dec(7808, -2)]

\* The leading literal of each assignment of In[2] and In[6], as the notebook
\* has it.  oh_c is assigned in both cells: oh_c_2 is the literal of In[6].
Literals ==
  [p_sfc |-> PyInt(101325), p_10 |-> PyInt(28000), R |-> Dec(831, -2),
   NA |-> Dec(6022, -3), t_sfc |-> PyInt(298), ho2 |-> PyInt(40),
   ch3o2 |-> PyInt(25), o3 |-> PyInt(40), oh_c |-> Dec(1, 6), f |-> Dec(15, -2),
   j_o1d |-> Dec(25, -1), k1 |-> Dec(85, -1), k1_l |-> Dec(73, -1),
   k2_l |-> PyInt(2), oh_c_2 |-> Dec(1, 6), j_no2 |-> Dec(1, -2),
   t_10 |-> PyInt(220), o3_sfc |-> PyInt(40), o3_10 |-> PyInt(100),
   n2 |-> Dec(7808, -2)]

\* The other literals of the notebook's expressions, each read once
Lit1e23 == Dec(1, 23)
Lit1e_12 == Dec(1, -12)
Lit1e_9 == Dec(1, -9)
Lit1e_5 == Dec(1, -5)
Lit1e_14 == Dec(1, -14)
Lit1e_15 == Dec(1, -15)
Lit1e_2 == Dec(1, -2)
Lit1e6 == Dec(1, 6)
Lit1_4 == Dec(14, -1)
Lit3_3 == Dec(33, -1)
Lit1e_30 == Dec(1, -30)
LitM1310 == PyInt(-1310)
Lit300 == PyInt(300)
Lit3600 == PyInt(3600)
Lit1 == PyInt(1)

\* Reading a name: NameError when it is not bound
Get(g, n) == IF g[n].tag = "unset" THEN Raise("NameError") ELSE g[n]

\* Fault: the density per m^3, without the conversion to cm^3
vol_to_dens_per_m3(g, vol, temp, pressure) ==
  [ret |-> FDiv(FMul(FMul(vol, Get(g, "NA")), pressure),
                FMul(Get(g, "R"), temp)),
   g   |-> g]

\* Fault: the denominator without its parentheses,
\*     return(vol * NA * pressure / R * temp * 1e6)
vol_to_dens_unparenthesised(g, vol, temp, pressure) ==
  [ret |-> FMul(FMul(FDiv(FMul(FMul(vol, Get(g, "NA")), pressure), Get(g, "R")),
                     temp),
                Lit1e6),
   g   |-> g]

\* def vol_to_dens(vol, temp, pressure):
\*     return((vol * NA * pressure) / (R * temp * 1e6))
\* called with the globals g; returns the value (or the exception raised) and
\* the globals as the call leaves them.  NA and R are read when it is called.
vol_to_dens(g, vol, temp, pressure) ==
  [ret |-> FDiv(FMul(FMul(vol, Get(g, "NA")), pressure),
                FMul(FMul(Get(g, "R"), temp), Lit1e6)),
   g   |-> g]

\* math.exp(x): the name math is looked up before the argument is evaluated
MathExp(g, x) == IF g["math"].tag = "unset" THEN Raise("NameError") ELSE FExp(x)

\* Fault: the denominator of no_crit without its parentheses
NoCritUnparenthesised(g) ==
  FAdd(FMul(FDiv(FMul(Get(g, "o3_c"),
                      FAdd(FAdd(FMul(Get(g, "k1_l"), Get(g, "oh_c")),
                                FMul(Get(g, "k2_l"), Get(g, "ho2_c"))),
                           FMul(Get(g, "f"), Get(g, "j_o1d")))),
                 Get(g, "k1")),
            Get(g, "ho2_c")),
       FMul(Get(g, "k2"), Get(g, "ch3o2_c")))

\* no_crit = (o3_c * (k1_l * oh_c + k2_l * ho2_c + f * j_o1d)) /
\*             (k1 * ho2_c + k2 * ch3o2_c)
NoCrit(g) ==
  FDiv(FMul(Get(g, "o3_c"),
            FAdd(FAdd(FMul(Get(g, "k1_l"), Get(g, "oh_c")),
                      FMul(Get(g, "k2_l"), Get(g, "ho2_c"))),
                 FMul(Get(g, "f"), Get(g, "j_o1d")))),
       FAdd(FMul(Get(g, "k1"), Get(g, "ho2_c")),
            FMul(Get(g, "k2"), Get(g, "ch3o2_c"))))

\* k = 1.4 * 1e-12 * math.exp(-1310 / t)
RateK(g, t) ==
  FMul(FMul(Lit1_4, Lit1e_12), MathExp(g, FDiv(LitM1310, Get(g, t))))

\* Fault: the surface temperature at both levels
RateKnSurface(g, t, n2c) ==
  FMul(FMul(FMul(Lit3_3, Lit1e_30), FPowNeg3(FDiv(Get(g, "t_sfc"), Lit300))),
       Get(g, n2c))

\* kn = 3.3 * 1e-30 * (t / 300)**-3.0 * n2_c
RateKn(g, t, n2c) ==
  FMul(FMul(FMul(Lit3_3, Lit1e_30), FPowNeg3(FDiv(Get(g, t), Lit300))),
       Get(g, n2c))

\* Fault: the surface ozone density at both levels
RatioSurfaceOzone(g, k, o3c) ==
  FDiv(Get(g, "j_no2"), FMul(Get(g, k), Get(g, "o3_sfc_c")))

\* rat = (j_no2) / (k * o3_c)
Ratio(g, k, o3c) == FDiv(Get(g, "j_no2"), FMul(Get(g, k), Get(g, o3c)))

\* Fault: the NO2 lifetime already scaled by the surface ratio
TauNO2WithRatio(g, kn) ==
  FDiv(FAdd(Lit1, Get(g, "rat_sfc")), FMul(Get(g, kn), Get(g, "oh_c")))

\* tau_no2 = 1 / (kn * oh_c)
TauNO2(g, kn) == FDiv(Lit1, FMul(Get(g, kn), Get(g, "oh_c")))

\* Fault: 1 - rat in place of 1 + rat
TauNOxMinus(g, tau, rat) ==
  FMul(Get(g, tau), FAdd(Lit1, FMul(PyInt(-1), Get(g, rat))))

\* tau_nox = tau_no2 * (1 + rat)
TauNOx(g, tau, rat) == FMul(Get(g, tau), FAdd(Lit1, Get(g, rat)))

\* The right-hand side of an assignment, or the expression of a print, in the
\* globals g, with the literals L of In[2] and In[6].
Eval(x, g, L) ==
  CASE x = "p_sfc"   -> L.p_sfc
    [] x = "p_10"    -> L.p_10
    [] x = "R"       -> L.R
    [] x = "NA"      -> FMul(L.NA, Lit1e23)
    [] x = "t_sfc"   -> L.t_sfc
    [] x = "ho2"     -> FMul(L.ho2, Lit1e_12)
    [] x = "ch3o2"   -> FMul(L.ch3o2, Lit1e_12)
    [] x = "o3"      -> FMul(L.o3, Lit1e_9)
    [] x = "oh_c"    -> L.oh_c
    [] x = "f"       -> L.f
    [] x = "j_o1d"   -> FMul(L.j_o1d, Lit1e_5)
    [] x = "k1k2"    -> FMul(L.k1, Lit1e_12)
    [] x = "k1_l"    -> FMul(L.k1_l, Lit1e_14)
    [] x = "k2_l"    -> FMul(L.k2_l, Lit1e_15)
    [] x = "no_crit" -> NoCrit(g)
    [] x = "k1_l*oh_c"  -> FMul(Get(g, "k1_l"), Get(g, "oh_c"))
    [] x = "k2_l*ho2_c" -> FMul(Get(g, "k2_l"), Get(g, "ho2_c"))
    [] x = "f*j_o1d"    -> FMul(Get(g, "f"), Get(g, "j_o1d"))
    [] x = "k1*ho2_c"   -> FMul(Get(g, "k1"), Get(g, "ho2_c"))
    [] x = "k2*ch3o2_c" -> FMul(Get(g, "k2"), Get(g, "ch3o2_c"))
    [] x = "oh_c_2"  -> L.oh_c_2
    [] x = "j_no2"   -> L.j_no2
    [] x = "t_10"    -> L.t_10
    [] x = "o3_sfc"  -> FMul(L.o3_sfc, Lit1e_9)
    [] x = "o3_10"   -> FMul(L.o3_10, Lit1e_9)
    [] x = "n2"      -> FMul(L.n2, Lit1e_2)
    [] x = "k_sfc"   -> RateK(g, "t_sfc")
    [] x = "k_10"    -> RateK(g, "t_10")
    [] x = "kn_sfc"  -> RateKn(g, "t_sfc", "n2_sfc_c")
    [] x = "kn_10"   -> RateKn(g, "t_10", "n2_10_c")
    [] x = "rat_sfc" -> Ratio(g, "k_sfc", "o3_sfc_c")
    [] x = "rat_10"  -> Ratio(g, "k_10", "o3_10_c")
    [] x = "tau_no2_sfc" -> TauNO2(g, "kn_sfc")
    [] x = "tau_no2_10"  -> TauNO2(g, "kn_10")
    [] x = "tau_nox_sfc" -> TauNOx(g, "tau_no2_sfc", "rat_sfc")
    [] x = "tau_nox_10"  -> TauNOx(g, "tau_no2_10", "rat_10")
    [] x = "tau_nox_sfc/3600" -> FDiv(Get(g, "tau_nox_sfc"), Lit3600)
    [] x = "tau_nox_10/3600"  -> FDiv(Get(g, "tau_nox_10"), Lit3600)
    [] OTHER -> Get(g, x)

\* Statements: bind a module or a function, assign an expression to one or
\* more names, assign the result of vol_to_dens(a[1], a[2], a[3]), print.
Import(n)    == [k |-> "bind", v |-> <<n>>, x |-> "", a |-> <<>>, f |-> ""]
Def(n)       == [k |-> "bind", v |-> <<n>>, x |-> "", a |-> <<>>, f |-> ""]
Set(n)       == [k |-> "set", v |-> <<n>>, x |-> n, a |-> <<>>, f |-> ""]
SetX(ns, x)  == [k |-> "set", v |-> ns, x |-> x, a |-> <<>>, f |-> ""]
Conv(n, vol, temp, pressure) ==
  [k |-> "call", v |-> <<n>>, x |-> "", a |-> <<vol, temp, pressure>>, f |-> ""]
PrintF(x, f) == [k |-> "print", v |-> <<>>, x |-> x, a |-> <<>>, f |-> f]

\* The globals g with the names ns (one, or two as in k1 = k2 = ...) bound to val
Bind(g, ns, val) == [g EXCEPT ![ns[1]] = val, ![ns[Len(ns)]] = val]

Program ==
  << <<Import("math")>>,
     <<Set("p_sfc"), Set("p_10"), Set("R"), Set("NA"), Set("t_sfc"), Set("ho2"),
       Set("ch3o2"), Set("o3"), Set("oh_c"), Set("f"), Set("j_o1d"),
       SetX(<<"k1", "k2">>, "k1k2"), Set("k1_l"), Set("k2_l")>>,
     <<Def("vol_to_dens"),
       Conv("ho2_c", "ho2", "t_sfc", "p_sfc"),
       Conv("ch3o2_c", "ch3o2", "t_sfc", "p_sfc"),
       Conv("o3_c", "o3", "t_sfc", "p_sfc")>>,
     <<Set("no_crit"), PrintF("no_crit", "e")>>,
     <<PrintF("k1_l*oh_c", "e"), PrintF("k2_l*ho2_c", "e"), PrintF("f*j_o1d", "e"),
       PrintF("k1*ho2_c", "e"), PrintF("k2*ch3o2_c", "e")>>,
     <<SetX(<<"oh_c">>, "oh_c_2"), Set("j_no2"), Set("t_10"), Set("o3_sfc"),
       Set("o3_10"), Set("n2"),
       Conv("o3_sfc_c", "o3_sfc", "t_sfc", "p_sfc"),
       Conv("o3_10_c", "o3_10", "t_10", "p_10"),
       Conv("n2_sfc_c", "n2", "t_sfc", "p_sfc"),
       Conv("n2_10_c", "n2", "t_10", "p_10"),
       Set("k_sfc"), Set("k_10"), Set("kn_sfc"), Set("kn_10")>>,
     <<Set("rat_sfc"), PrintF("rat_sfc", "f")>>,
     <<Set("rat_10"), PrintF("rat_10", "f")>>,
     <<Set("tau_no2_sfc"), Set("tau_no2_10")>>,
     <<Set("tau_nox_sfc"), Set("tau_nox_10"),
       PrintF("tau_nox_sfc/3600", "f"), PrintF("tau_nox_10/3600", "f")>> >>

\* The first exception among the values vs, in order ("" when none)
RECURSIVE FirstExc(_, _)
FirstExc(vs, i) ==
  IF i > Len(vs) THEN ""
  ELSE IF IsExc(vs[i]) THEN vs[i].tag ELSE FirstExc(vs, i + 1)

\* One statement in the globals g: the globals after it, the exception it
\* raised ("" when none) and the lines it printed.
Exec(st, g, L) ==
  LET \* the value of the expression: assigned, or formatted and printed
      Value(val) ==
        IF IsExc(val) THEN [g |-> g, exc |-> val.tag, out |-> <<>>]
        ELSE IF st.k = "set" THEN [g |-> Bind(g, st.v, val), exc |-> "", out |-> <<>>]
        ELSE [g |-> g, exc |-> "", out |-> <<Fmt(st.f, val)>>]
      Return(r) ==
        IF IsExc(r.ret) THEN [g |-> r.g, exc |-> r.ret.tag, out |-> <<>>]
        ELSE [g |-> Bind(r.g, st.v, r.ret), exc |-> "", out |-> <<>>]
      \* pre: the exception raised by reading the function or an argument
      Apply(pre, args) ==
        IF pre # "" THEN [g |-> g, exc |-> pre, out |-> <<>>]
        ELSE Return(vol_to_dens(g, args[1], args[2], args[3]))
      Lookup(fn, args) == Apply(FirstExc(<<fn>> \o args, 1), args)
  IN  CASE st.k = "bind" -> [g |-> Bind(g, st.v, Obj), exc |-> "", out |-> <<>>]
        [] st.k = "call" ->
             Lookup(Get(g, "vol_to_dens"), [i \in 1..3 |-> Get(g, st.a[i])])
        [] OTHER -> Value(Eval(st.x, g, L))

\* The statements lo..hi of a cell, in order, until one raises.  acc is the
\* state reached so far: the globals, the exception raised ("" when none) and
\* the lines printed.  The range is halved rather than walked, which keeps the
\* evaluation shallow.
RECURSIVE RunFrom(_, _, _, _, _)
RunFrom(prog, lo, hi, acc, L) ==
  IF lo > hi \/ acc.exc # "" THEN acc
  ELSE IF lo = hi
  THEN LET Then(r) == [g |-> r.g, exc |-> r.exc, out |-> acc.out \o r.out]
       IN  Then(Exec(prog[lo], acc.g, L))
  ELSE RunFrom(prog, ((lo + hi) \div 2) + 1, hi,
               RunFrom(prog, lo, (lo + hi) \div 2, acc, L), L)

\* A whole cell, started in the globals g
RunProg(prog, g, L) ==
  RunFrom(prog, 1, Len(prog), [g |-> g, exc |-> "", out |-> <<>>], L)

\* The cells i..last of the notebook in order, each started where the one
\* before ended, until one raises.  acc is the state reached so far: the
\* globals, the exception raised ("" when none) and the output of each cell.
RECURSIVE RunCells(_, _, _, _)
RunCells(i, last, acc, L) ==
  IF i > last \/ acc.exc # "" THEN acc
  ELSE IF i = last
  THEN LET Then(r) == [g |-> r.g, exc |-> r.exc, out |-> Append(acc.out, r.out)]
       IN  Then(RunProg(Program[i], acc.g, L))
  ELSE RunCells(((i + last) \div 2) + 1, last,
                RunCells(i, (i + last) \div 2, acc, L), L)

(***************************************************************************)
(* The kernel's state                                                      *)
(***************************************************************************)
VARIABLES
  env,   \* the namespace: the value bound to each name
  out,   \* the output area of each code cell: the lines it printed
  exc,   \* the exception that ended the last execution ("" when none)
  pc,    \* Run All: the cell it runs next, or the cell that raised; else 0
  lit,   \* the literals of In[2] and In[6]
  call   \* the last call of vol_to_dens from the prompt: arguments and result

vars == <<env, out, exc, pc, lit, call>>

NoCall == [vol |-> Unset, temp |-> Unset, pressure |-> Unset, ret |-> Unset]

Fresh == [n \in Names |-> Unset]

\* A fresh kernel on the notebook as written
Init ==
  /\ env = Fresh
  /\ out = [c \in Cells |-> <<>>]
  /\ exc = ""
  /\ pc = 0
  /\ lit = Literals
  /\ call = NoCall

\* Running code cell c: its statements run until one raises; the cell's output
\* area is replaced by what this run printed.
RunCell(c) ==
  \E r \in {RunProg(Program[c], env, lit)} :
    /\ env' = r.g
    /\ out' = [out EXCEPT ![c] = r.out]
    /\ exc' = r.exc
    /\ UNCHANGED <<lit, call>>

\* Cells may be run one at a time, in any order, any number of times
Run == \E c \in Cells : RunCell(c) /\ UNCHANGED pc

Next == Run

Spec == Init /\ [][Next]_vars

(***************************************************************************)
(* Run All on an edited notebook.  The inputs are literals of the          *)
(* notebook: another input is an edit of a literal.  Run All runs the      *)
(* cells top to bottom and stops at the first cell that raises.            *)
(***************************************************************************)
\* The literal as written, or 0 in its place
OrZero(x) == {x, PyInt(0)}

Edits ==
  LET Edit(L) ==
        {[L EXCEPT !.ho2 = a, !.ch3o2 = b, !.o3_sfc = c, !.o3_10 = d,
                   !.oh_c_2 = e, !.n2 = h] :
           a \in OrZero(L.ho2), b \in OrZero(L.ch3o2), c \in OrZero(L.o3_sfc),
           d \in OrZero(L.o3_10), e \in OrZero(L.oh_c_2), h \in OrZero(L.n2)}
  IN  Edit(Literals)

InitEdit ==
  /\ env = Fresh
  /\ out = [c \in Cells |-> <<>>]
  /\ exc = ""
  /\ pc = 1
  /\ lit \in Edits
  /\ call = NoCall

RunAll ==
  /\ pc \in Cells
  /\ exc = ""
  /\ RunCell(pc)
  /\ pc' = IF exc' = "" THEN pc + 1 ELSE pc

NextEdit == RunAll

SpecEdit == InitEdit /\ [][NextEdit]_vars

(***************************************************************************)
(* vol_to_dens called from the prompt, once In[1]..In[3] have run          *)
(***************************************************************************)
Loaded == RunCells(1, 3, [g |-> Fresh, exc |-> "", out |-> <<>>], Literals)

\* The arguments tried: mixing ratios, temperatures and pressures of the
\* notebook, 0 and 1, and a negative temperature and pressure
Vols == {PyInt(0), PyInt(1), FMul(PyInt(40), Lit1e_9), FMul(PyInt(25), Lit1e_12),
         FMul(Dec(7808, -2), Lit1e_2)}
Temps == {PyInt(298), PyInt(220), PyInt(1), PyInt(0), PyInt(-298)}
Pressures == {PyInt(101325), PyInt(28000), PyInt(1), PyInt(0), PyInt(-28000)}

InitCall ==
  /\ env = Loaded.g
  /\ out = [c \in Cells |-> <<>>]
  /\ exc = ""
  /\ pc = 0
  /\ lit = Literals
  /\ call = NoCall

\* vol_to_dens(vol, temp, pressure) typed at the prompt
Call(vol, temp, pressure) ==
  /\ env["vol_to_dens"].tag = "obj"
  /\ \E r \in {vol_to_dens(env, vol, temp, pressure)} :
       /\ env' = r.g
       /\ call' = [vol |-> vol, temp |-> temp, pressure |-> pressure, ret |-> r.ret]
       /\ exc' = IF IsExc(r.ret) THEN r.ret.tag ELSE ""
  /\ UNCHANGED <<out, pc, lit>>

Prompt == \E vol \in Vols, temp \in Temps, pressure \in Pressures :
            Call(vol, temp, pressure)

NextCall == Prompt

SpecCall == InitCall /\ [][NextCall]_vars

(***************************************************************************)
(* Exact rationals (-1)^s * n / d, to state how far a float lies from a    *)
(* real value                                                              *)
(***************************************************************************)
Q(s, n, d) == [s |-> s, n |-> n, d |-> d]
FloatQ(a) == Q(a.s, Frac(a)[1], Frac(a)[2])
DecQ(mant, e10) ==
  IF e10 >= 0 THEN Q(0, BMul(BFromInt(mant), BPow10(e10)), <<1>>)
  ELSE Q(0, BFromInt(mant), BPow10(-e10))
QMul(a, b) == Q(Xor(a.s, b.s), BMul(a.n, b.n), BMul(a.d, b.d))
QDiv(a, b) == Q(Xor(a.s, b.s), BMul(a.n, b.d), BMul(a.d, b.n))
BAbsDiff(x, y) == IF BCmp(x, y) >= 0 THEN BSub(x, y) ELSE BSub(y, x)

QEq(a, b) ==
  LET x == BMul(a.n, b.d)
      y == BMul(b.n, a.d)
  IN  x = y /\ (x = <<>> \/ a.s = b.s)

\* |a - b| <= |b| / t
QNear(a, b, t) ==
  LET x == BMul(a.n, b.d)
      y == BMul(b.n, a.d)
  IN  IF x = <<>> \/ y = <<>> THEN x = y
      ELSE a.s = b.s /\ BCmp(BMul(t, BAbsDiff(x, y)), y) <= 0

OnePercent == BFromInt(100)
IsPos(a) == IsNum(a) /\ ~IsZero(a) /\ a.s = 0
NonNeg(a) == IsNum(a) /\ (IsZero(a) \/ a.s = 0)
IsZeroNum(a) == IsNum(a) /\ IsZero(a)
\* a == b in Python: the same number (0.0 == -0.0)
FEq(a, b) == IsNum(a) /\ IsNum(b) /\ ((IsZero(a) /\ IsZero(b)) \/ a = b)
IsPrefix(a, b) == Len(a) <= Len(b) /\ SubSeq(b, 1, Len(a)) = a
Line(f, d, x) == [f |-> f, neg |-> 0, d |-> BFromInt(d), x |-> x]
Assigned(n) == env[n].tag # "unset"

\* (vol * NA * pressure) / (R * temp * 1e6) in binary64 with NA = 6.022 * 1e23
\* and R = 8.31, and as a real number with NA = 6.022e23
AvogadroF == FMul(Dec(6022, -3), Dec(1, 23))
GasConstF == Dec(831, -2)
Dens(vol, temp, pressure) ==
  FDiv(FMul(FMul(vol, AvogadroF), pressure), FMul(FMul(GasConstF, temp), Dec(1, 6)))
ExactDens(vol, temp, pressure) ==
  QDiv(QMul(QMul(FloatQ(vol), DecQ(6022, 20)), FloatQ(pressure)),
       QMul(QMul(DecQ(831, -2), FloatQ(temp)), DecQ(1, 6)))

\* vol_to_dens has been called with a mixing ratio >= 0, a temperature > 0 and
\* a pressure > 0
Called == call.ret.tag # "unset"
ValidCall == Called /\ NonNeg(call.vol) /\ IsPos(call.temp) /\ IsPos(call.pressure)
Untouched == env = Loaded.g /\ out = [c \in Cells |-> <<>>]

(***************************************************************************)
(* C1: as stated - a valid call returns exactly                            *)
(* v * NA * P / (R * T * 1e6) with NA = 6.022e23 and R = 8.31, read as the *)
(* real number or as the float expression over the literal 6.022e23, and   *)
(* changes no variable.                                                    *)
(***************************************************************************)
DensOfLiteral(vol, temp, pressure) ==
  FDiv(FMul(FMul(vol, Dec(6022, 20)), pressure), FMul(FMul(GasConstF, temp), Dec(1, 6)))

MaxFactor == 3
Factors == 1..MaxFactor
Times(c, a) == FMul(PyInt(c), a)
Over(a, c) == FDiv(a, PyInt(c))
Returned(vol, temp, pressure) == vol_to_dens(env, vol, temp, pressure).ret

IsPow2(c) == \E k \in 0..c : c = 2^k
Scaled(a, b, c) ==
  /\ IsNum(a) /\ IsNum(b)
  /\ QNear(FloatQ(a), FloatQ(b), BShl(<<1>>, 48))
  /\ (IsPow2(c) => FEq(a, b))

C3_CriticalNO ==
  Assigned("no_crit") =>
    /\ env["no_crit"] =
         FDiv(FMul(env["o3_c"],
                   FAdd(FAdd(FMul(env["k1_l"], env["oh_c"]),
                             FMul(env["k2_l"], env["ho2_c"])),
                        FMul(env["f"], env["j_o1d"]))),
              FAdd(FMul(env["k1"], env["ho2_c"]), FMul(env["k2"], env["ch3o2_c"])))
    /\ env["ho2_c"] = Dens(env["ho2"], PyInt(298), PyInt(101325))
    /\ env["ch3o2_c"] = Dens(env["ch3o2"], PyInt(298), PyInt(101325))
    /\ env["o3_c"] = Dens(env["o3"], PyInt(298), PyInt(101325))
    /\ QNear(FloatQ(env["no_crit"]), DecQ(419, 6), OnePercent)
    /\ (out[4] # <<>> => out[4] = <<Line("e", 419, 8)>>)

C3_Witness == Assigned("no_crit") /\ out[4] # <<>>

(***************************************************************************)
(* C4: once assigned, tau_nox = tau_no2 * (1 + rat) with                   *)
(* tau_no2 = 1 / (kn * oh_c) and kn = 3.3 * 1e-30 * (T / 300)**-3 * n2_c,  *)
(* the surface values from t_sfc, p_sfc and rat_sfc and the 10 km values   *)
(* from t_10, p_10 and rat_10; tau_nox_sfc is within 1% of 6.81 hours and  *)
(* tau_nox_10 within 1% of 18.37 hours, and the lines printed are 6.81 and *)
(* 18.37.                                                                  *)
(***************************************************************************)
Lifetime(tau_nox, tau_no2, kn, rat, n2c, t, p, hours) ==
  Assigned(tau_nox) =>
    /\ env[tau_nox] = FMul(env[tau_no2], FAdd(PyInt(1), env[rat]))
    /\ env[tau_no2] = FDiv(PyInt(1), FMul(env[kn], env["oh_c"]))
    /\ env[kn] = FMul(FMul(FMul(Dec(33, -1), Dec(1, -30)),
                           FPowNeg3(FDiv(env[t], PyInt(300)))),
                      env[n2c])
    /\ env[n2c] = Dens(env["n2"], env[t], env[p])
    /\ QNear(QDiv(FloatQ(env[tau_nox]), DecQ(3600, 0)), DecQ(hours, -2), OnePercent)

C4_Lifetime ==
  /\ Lifetime("tau_nox_sfc", "tau_no2_sfc", "kn_sfc", "rat_sfc", "n2_sfc_c",
              "t_sfc", "p_sfc", 681)
  /\ Lifetime("tau_nox_10", "tau_no2_10", "kn_10", "rat_10", "n2_10_c",
              "t_10", "p_10", 1837)
  /\ (out[10] # <<>> => out[10] = <<Line("f", 681, 0), Line("f", 1837, 0)>>)

C4_Witness == Assigned("tau_nox_sfc") /\ Assigned("tau_nox_10") /\ out[10] # <<>>

(***************************************************************************)
(* C5: once assigned, rat = j_no2 / (k * o3_c) with                        *)
(* k = 1.4 * 1e-12 * exp(-1310 / T), the surface ratio from t_sfc, p_sfc   *)
(* and o3_sfc and the 10 km ratio from t_10, p_10 and o3_10; rat_sfc is    *)
(* within 1% of 0.59 and rat_10 within 1% of 2.99, and the lines printed   *)
(* are 0.59 and 2.99.                                                      *)
(***************************************************************************)
Partition(rat, k, o3c, o3v, t, p, hundredths) ==
  Assigned(rat) =>
    /\ env[rat] = FDiv(env["j_no2"], FMul(env[k], env[o3c]))
    /\ env[k] = FMul(FMul(Dec(14, -1), Dec(1, -12)),
                     FExp(FDiv(PyInt(-1310), env[t])))
    /\ env[o3c] = Dens(env[o3v], env[t], env[p])
    /\ QNear(FloatQ(env[rat]), DecQ(hundredths, -2), OnePercent)

C5_Ratio ==
  /\ Partition("rat_sfc", "k_sfc", "o3_sfc_c", "o3_sfc", "t_sfc", "p_sfc", 59)
  /\ Partition("rat_10", "k_10", "o3_10_c", "o3_10", "t_10", "p_10", 299)
  /\ (out[7] # <<>> => out[7] = <<Line("f", 59, 0)>>)
  /\ (out[8] # <<>> => out[8] = <<Line("f", 299, 0)>>)

C5_Witness == Assigned("rat_sfc") /\ Assigned("rat_10") /\ out[7] # <<>> /\ out[8] # <<>>

(***************************************************************************)
(* C6: as stated - a call of vol_to_dens with a temperature <= 0 or a      *)
(* pressure <= 0 raises InvalidInput and returns no number.                *)
(***************************************************************************)
C6_InvalidInput ==
  (Called /\ (~IsPos(call.temp) \/ ~IsPos(call.pressure))) =>
    (call.ret.tag = "InvalidInput" /\ exc = "InvalidInput")

(***************************************************************************)
(* C7: under Run All, when the denominator of no_crit, of a ratio or of a  *)
(* NO2 lifetime is zero, the cell raises ZeroDivisionError and the run     *)
(* stops there: the result variable stays unassigned and neither that cell *)
(* nor any later cell prints a line.                                       *)
(***************************************************************************)
Ran(c) == pc > c \/ (pc = c /\ exc # "")
Halted(c, n) ==
  /\ exc = "ZeroDivisionError"
  /\ pc = c
  /\ ~Assigned(n)
  /\ \A d \in c..10 : out[d] = <<>>

C7_DivisionByZero ==
  /\ (Ran(4) /\ IsZeroNum(FAdd(FMul(env["k1"], env["ho2_c"]),
                               FMul(env["k2"], env["ch3o2_c"]))))
       => Halted(4, "no_crit")
  /\ (Ran(7) /\ IsZeroNum(FMul(env["k_sfc"], env["o3_sfc_c"])))
       => Halted(7, "rat_sfc")
  /\ (Ran(8) /\ IsZeroNum(FMul(env["k_10"], env["o3_10_c"])))
       => Halted(8, "rat_10")
  /\ (Ran(9) /\ IsZeroNum(FMul(env["kn_sfc"], env["oh_c"])))
       => Halted(9, "tau_no2_sfc")
  /\ (Ran(9) /\ IsZeroNum(FMul(env["kn_10"], env["oh_c"])))
       => Halted(9, "tau_no2_10")

\* Run All has stopped at the critical [NO] cell, whose denominator is zero
C7_Witness ==
  /\ pc = 4 /\ exc = "ZeroDivisionError"
  /\ IsZeroNum(env["ho2_c"]) /\ IsZeroNum(env["ch3o2_c"])

(***************************************************************************)
(* C8: running a cell again changes nothing: a variable that is assigned   *)
(* keeps its value in every later execution, a line that a cell printed is *)
(* printed again unchanged, and the two conversions of the same ozone      *)
(* mixing ratio (o3_c in In[3], o3_sfc_c in In[6]) return the same value.  *)
(***************************************************************************)
SameValues ==
  /\ \A n \in Names : Assigned(n) => env'[n] = env[n]
  /\ \A c \in Cells : \A i \in 1..Min(Len(out[c]), Len(out'[c])) :
       out'[c][i] = out[c][i]
  /\ (Assigned("o3_c") /\ Assigned("o3_sfc_c")) => env["o3_c"] = env["o3_sfc_c"]

C8_Idempotent == [][SameValues]_vars

\* every cell has run to its end: any further execution is a repetition
C8_Witness ==
  /\ \A n \in Names : Assigned(n)
  /\ \A c \in {4, 5, 7, 8, 10} : out[c] # <<>>
  /\ Len(out[5]) = 5

(***************************************************************************)
(* C9: every number bound in the namespace is strictly greater than zero.  *)
(***************************************************************************)
C9_Positive == \A n \in Names : IsNum(env[n]) => IsPos(env[n])

C9_Witness == \A n \in Names : Assigned(n) /\ (env[n].tag # "obj" => IsPos(env[n]))

(***************************************************************************)
(* C10: as stated - once the constants and conversions are done, the       *)
(* evaluations can be executed in any order without reading an unassigned  *)
(* variable.                                                               *)
(***************************************************************************)
Results ==
  {"no_crit", "rat_sfc", "rat_10", "tau_no2_sfc", "tau_no2_10", "tau_nox_sfc",
   "tau_nox_10"}
Ready == \A n \in Names \ Results : Assigned(n)

C10_AnyOrder == Ready => exc # "NameError"

(***************************************************************************)
(* C10: once the constants and conversions are done, the critical [NO]     *)
(* (In[4], In[5]), the two ratios (In[7], In[8]) and the NO2 lifetimes     *)
(* (In[9]) can each be evaluated without error whatever else has been      *)
(* evaluated; the NOx lifetime (In[10]) reads rat_sfc, rat_10 and the NO2  *)
(* lifetimes and raises NameError unless they are all assigned; and every  *)
(* value assigned and every line printed, in whatever order, is that of    *)
(* the top to bottom run.                                                  *)
(***************************************************************************)
Reference == RunCells(1, 10, [g |-> Fresh, exc |-> "", out |-> <<>>], Literals)
Raises(c) == RunProg(Program[c], env, lit).exc

C10_OrderOfEvaluation ==
  /\ Ready =>
       /\ \A c \in {4, 5, 7, 8, 9} : Raises(c) = ""
       /\ Raises(10) =
            IF \A n \in {"rat_sfc", "rat_10", "tau_no2_sfc", "tau_no2_10"} : Assigned(n)
            THEN "" ELSE "NameError"
  /\ \A n \in Names : Assigned(n) => env[n] = Reference.g[n]
  /\ \A c \in Cells : IsPrefix(out[c], Reference.out[c])

\* the NOx lifetimes evaluated before the critical [NO]
C10_Witness == Ready /\ Assigned("tau_nox_10") /\ ~Assigned("no_crit")
====
